---- MODULE Spec2Model ----
(***************************************************************************)
(* Model of the two comment scrapers of the repository:                    *)
(*   platform "A" = src/instagram_scraper.py                               *)
(*   platform "B" = src/tiktok_scraper.py                                  *)
(* Python values are modelled as tagged tuples <<type, payload>>; Python   *)
(* strings are sequences of one-character strings; a Python dict is the    *)
(* sequence of its <<key, value>> items in insertion order.                *)
(***************************************************************************)
EXTENDS Integers, Sequences, FiniteSets, TLC

\* ------------------------------------------------------------------------
\* Bounds of the model
\* ------------------------------------------------------------------------
MaxCellLen == 2
MaxRows == 3
MaxRecs == 2

VARIABLES
    in_file,    \* ID-source harness: the input file handed to both readers
    ret_ig,     \* result of read_post_ids_from_csv
    ret_tt,     \* result of read_ids_from_csv
    sink_in,    \* sink harness: the accumulated records handed to the sink
    sink_out,   \* what the sink wrote
    platform,   \* "A" (instagram_scraper.py) or "B" (tiktok_scraper.py)
    input,      \* the input file of main
    pc,         \* position of the single thread of control
    ids,        \* ids_to_scrape / aweme_ids
    idx,        \* number of ids main's for loop has taken
    all_comments_data,  \* main's accumulation list
    output,     \* the output file
    exit_code,  \* how the process ended
    nfetch,     \* network requests issued so far
    next_id,    \* next comment id the server hands out
    pw,         \* locals of the parent walk in progress
    rw,         \* locals of the reply walk in progress (platform A)
    stack,      \* call stack of comment parsing / reply walks (platform B)
    walks,      \* history: every walk started, with the records it returned
    log         \* history: every network request with the response it got

vars_ids == <<in_file, ret_ig, ret_tt>>
vars_sink == <<sink_in, sink_out>>
vars_pipe == <<platform, input, pc, ids, idx, all_comments_data, output,
               exit_code, nfetch, next_id, pw, rw, stack, walks, log>>
vars == <<vars_ids, vars_sink, vars_pipe>>

\* ------------------------------------------------------------------------
\* Python values
\* ------------------------------------------------------------------------
PyNone == <<"None">>
PyStr(s) == <<"str", s>>
PyInt(n) == <<"int", n>>
PyBool(b) == <<"bool", b>>
PyList(l) == <<"list", l>>

DigitChar == <<"0", "1", "2", "3", "4", "5", "6", "7", "8", "9">>

RECURSIVE Digits(_)
Digits(n) ==
    IF n < 10 THEN <<DigitChar[n + 1]>>
    ELSE Append(Digits(n \div 10), DigitChar[(n % 10) + 1])

\* sequences of length 0..n over S
SeqUpTo(S, n) == UNION {[1..k -> S] : k \in 0..n}

Range(s) == {s[i] : i \in 1..Len(s)}

\* ------------------------------------------------------------------------
\* ID source
\* ------------------------------------------------------------------------
Whitespace == {" "}
Chars == {" ", "a"}

RECURSIVE LStrip(_)
LStrip(s) ==
    IF s # <<>> /\ Head(s) \in Whitespace THEN LStrip(Tail(s)) ELSE s

RECURSIVE RStrip(_)
RStrip(s) ==
    IF s # <<>> /\ s[Len(s)] \in Whitespace
    THEN RStrip(SubSeq(s, 1, Len(s) - 1))
    ELSE s

strip(s) == RStrip(LStrip(s))

\* next(reader, None): drops the first row when there is one
SkipHeader(rows) == IF rows = <<>> THEN rows ELSE Tail(rows)

RECURSIVE ReadLoop(_, _)
ReadLoop(rows, acc) ==
    IF rows = <<>> THEN acc
    ELSE LET row == Head(rows)
         IN  ReadLoop(Tail(rows),
                      IF row # <<>> /\ strip(row[1]) # <<>>
                      THEN Append(acc, strip(row[1]))
                      ELSE acc)

\* variant: the first row is read as an id
read_post_ids_from_csv_NoSkip(f) ==
    IF ~f.exists THEN <<>> ELSE ReadLoop(f.rows, <<>>)

read_post_ids_from_csv(f) ==
    IF ~f.exists THEN <<>>                    \* except FileNotFoundError
    ELSE ReadLoop(SkipHeader(f.rows), <<>>)

read_ids_from_csv(f) ==
    IF ~f.exists THEN <<>>                    \* except FileNotFoundError
    ELSE ReadLoop(SkipHeader(f.rows), <<>>)

Cells == SeqUpTo(Chars, MaxCellLen)
OtherCell == <<"a">>
Rows == {<<>>} \cup {<<c>> : c \in Cells}
            \cup {<<c, OtherCell>> : c \in {x \in Cells : Len(x) <= 1}}
Files == {[exists |-> FALSE, rows |-> <<>>]}
            \cup {[exists |-> TRUE, rows |-> r] : r \in SeqUpTo(Rows, MaxRows)}

NotRead == [done |-> FALSE, ids |-> <<>>]

\* ------------------------------------------------------------------------
\* Sink (CSV writer)
\* ------------------------------------------------------------------------
\* code points of the field names, as Python's sorted() compares them
CodePoints ==
    [a |-> <<97>>, b |-> <<98>>, c |-> <<99>>,
     post_id |-> <<112, 111, 115, 116, 95, 105, 100>>,
     parent_comment_id |-> <<112, 97, 114, 101, 110, 116, 95, 99, 111, 109,
                             109, 101, 110, 116, 95, 105, 100>>,
     comment_id |-> <<99, 111, 109, 109, 101, 110, 116, 95, 105, 100>>,
     username |-> <<117, 115, 101, 114, 110, 97, 109, 101>>,
     comment_text |-> <<99, 111, 109, 109, 101, 110, 116, 95, 116, 101,
                        120, 116>>,
     created_at |-> <<99, 114, 101, 97, 116, 101, 100, 95, 97, 116>>,
     is_reply |-> <<105, 115, 95, 114, 101, 112, 108, 121>>,
     nickname |-> <<110, 105, 99, 107, 110, 97, 109, 101>>,
     comment |-> <<99, 111, 109, 109, 101, 110, 116>>,
     create_time |-> <<99, 114, 101, 97, 116, 101, 95, 116, 105, 109, 101>>,
     avatar |-> <<97, 118, 97, 116, 97, 114>>,
     total_reply |-> <<116, 111, 116, 97, 108, 95, 114, 101, 112, 108, 121>>,
     replies |-> <<114, 101, 112, 108, 105, 101, 115>>,
     aweme_id |-> <<97, 119, 101, 109, 101, 95, 105, 100>>]

RECURSIVE LexLess(_, _)
LexLess(s, t) ==
    IF t = <<>> THEN FALSE
    ELSE IF s = <<>> THEN TRUE
    ELSE IF Head(s) # Head(t) THEN Head(s) < Head(t)
    ELSE LexLess(Tail(s), Tail(t))

StrLess(k1, k2) == LexLess(CodePoints[k1], CodePoints[k2])

\* dict helpers
KeyList(d) == [i \in 1..Len(d) |-> d[i][1]]
Keys(d) == {d[i][1] : i \in 1..Len(d)}
Get(d, k, default) ==
    IF k \in Keys(d)
    THEN d[CHOOSE i \in 1..Len(d) : d[i][1] = k][2]
    ELSE default

\* sorted(list(S)) on a set of strings
RECURSIVE sorted(_)
sorted(S) ==
    IF S = {} THEN <<>>
    ELSE LET m == CHOOSE x \in S : \A y \in S \ {x} : StrLess(x, y)
         IN  <<m>> \o sorted(S \ {m})

\* the text csv writes for one value: None -> '', everything else str(v)
CsvCell(v) ==
    CASE v[1] = "None" -> PyStr(<<>>)
      [] v[1] = "int"  -> PyStr(Digits(v[2]))
      [] v[1] = "bool" -> PyStr(IF v[2] THEN <<"T", "r", "u", "e">>
                                        ELSE <<"F", "a", "l", "s", "e">>)
      [] OTHER -> v

\* DictWriter._dict_to_list with restval=''
DictToList(d, fieldnames) ==
    [i \in 1..Len(fieldnames) |-> CsvCell(Get(d, fieldnames[i], PyStr(<<>>)))]

AllKeys(recs) == UNION {Keys(recs[i]) : i \in 1..Len(recs)}

NoFile == [written |-> FALSE, header |-> <<>>, rows |-> <<>>, raised |-> FALSE]

\* first record holding a key outside fieldnames (extrasaction='raise'), or 0
FirstBad(recs, fieldnames) ==
    LET bad == {i \in 1..Len(recs) : ~(Keys(recs[i]) \subseteq Range(fieldnames))}
    IN  IF bad = {} THEN 0 ELSE CHOOSE i \in bad : \A j \in bad : i <= j

WriteCsv(recs, fieldnames) ==
    LET fb == FirstBad(recs, fieldnames)
        n  == IF fb = 0 THEN Len(recs) ELSE fb - 1
    IN  [written |-> TRUE,
         header  |-> fieldnames,
         rows    |-> [i \in 1..n |-> DictToList(recs[i], fieldnames)],
         raised  |-> fb # 0]

\* variant: the header is the first record's keys
SinkIg_Unsorted(recs) ==
    IF recs = <<>> THEN NoFile
    ELSE WriteCsv(recs, KeyList(recs[1]))

SinkIg(recs) ==
    IF recs = <<>> THEN NoFile
    ELSE WriteCsv(recs, sorted(AllKeys(recs)))

SinkTt(recs) ==
    IF recs = <<>> THEN NoFile
    ELSE WriteCsv(recs, KeyList(recs[1]))

SinkKeys == {"a", "b", "c"}
KeyOrders == {s \in SeqUpTo(SinkKeys, Cardinality(SinkKeys)) :
                 \A i, j \in 1..Len(s) : i # j => s[i] # s[j]}
SinkValue == [a |-> PyStr(<<"1">>), b |-> PyInt(12), c |-> PyBool(TRUE)]
SinkDicts ==
    {[i \in 1..Len(s) |-> <<s[i], SinkValue[s[i]]>>] : s \in KeyOrders}
    \cup {[i \in 1..Len(s) |-> <<s[i], IF i = 1 THEN PyNone ELSE SinkValue[s[i]]>>] :
             s \in KeyOrders \ {<<>>}}

NotRun == [by |-> "none", file |-> NoFile]

\* ------------------------------------------------------------------------
\* Harnesses of the two pure parts: the ID source and the sink
\* ------------------------------------------------------------------------
IdleIds == in_file = [exists |-> FALSE, rows |-> <<>>] /\ ret_ig = NotRead /\ ret_tt = NotRead
IdleSink == sink_in = <<>> /\ sink_out = NotRun
IdlePipe ==
    /\ platform = "A" /\ input = [exists |-> FALSE, rows |-> <<>>]
    /\ pc = "idle" /\ ids = <<>> /\ idx = 0 /\ all_comments_data = <<>>
    /\ output = NoFile /\ exit_code = "running" /\ nfetch = 0 /\ next_id = 1
    /\ pw = <<>> /\ rw = <<>> /\ stack = <<>> /\ walks = <<>> /\ log = <<>>

InitIds ==
    /\ in_file \in Files
    /\ ret_ig = NotRead
    /\ ret_tt = NotRead
    /\ IdleSink /\ IdlePipe

ReadIg ==
    /\ ~ret_ig.done
    /\ ret_ig' = [done |-> TRUE, ids |-> read_post_ids_from_csv(in_file)]
    /\ UNCHANGED <<in_file, ret_tt, vars_sink, vars_pipe>>

ReadTt ==
    /\ ~ret_tt.done
    /\ ret_tt' = [done |-> TRUE, ids |-> read_ids_from_csv(in_file)]
    /\ UNCHANGED <<in_file, ret_ig, vars_sink, vars_pipe>>

NextIds == ReadIg \/ ReadTt
SpecIds == InitIds /\ [][NextIds]_vars

InitSink ==
    /\ sink_in \in SeqUpTo(SinkDicts, MaxRecs)
    /\ sink_out = NotRun
    /\ IdleIds /\ IdlePipe

SinkRunIg ==
    /\ sink_out.by = "none"
    /\ sink_out' = [by |-> "A", file |-> SinkIg(sink_in)]
    /\ UNCHANGED <<sink_in, vars_ids, vars_pipe>>

SinkRunTt ==
    /\ sink_out.by = "none"
    /\ sink_out' = [by |-> "B", file |-> SinkTt(sink_in)]
    /\ UNCHANGED <<sink_in, vars_ids, vars_pipe>>

NextSink == SinkRunIg \/ SinkRunTt
SpecSink == InitSink /\ [][NextSink]_vars

\* ------------------------------------------------------------------------
\* C7: the ID source
\* ------------------------------------------------------------------------
\* t is s without its leading and trailing whitespace
IsTrimOf(t, s) ==
    \/ t = <<>> /\ \A i \in 1..Len(s) : s[i] \in Whitespace
    \/ \E i, j \in 1..Len(s) :
          /\ i <= j /\ t = SubSeq(s, i, j)
          /\ s[i] \notin Whitespace /\ s[j] \notin Whitespace
          /\ \A k \in 1..Len(s) : (k < i \/ k > j) => s[k] \in Whitespace

\* rows after the first whose first cell exists and is not blank
KeptRows(f) ==
    {i \in 2..Len(f.rows) :
        /\ f.rows[i] # <<>>
        /\ \E k \in 1..Len(f.rows[i][1]) : f.rows[i][1][k] \notin Whitespace}

IsIdListOf(r, f) ==
    IF ~f.exists THEN r = <<>>
    ELSE \E m \in [1..Len(r) -> KeptRows(f)] :
            /\ \A i, j \in 1..Len(r) : i < j => m[i] < m[j]
            /\ \A k \in KeptRows(f) : \E i \in 1..Len(r) : m[i] = k
            /\ \A i \in 1..Len(r) : IsTrimOf(r[i], f.rows[m[i]][1])

\* C7: both readers return, in file order, the trimmed first-column values of
\* the rows after the first, leaving out empty rows and rows whose first cell
\* is blank; they agree with each other; a missing file gives the empty list.
C7_IdSource ==
    /\ ret_ig.done => IsIdListOf(ret_ig.ids, in_file)
    /\ ret_tt.done => IsIdListOf(ret_tt.ids, in_file)
    /\ (ret_ig.done /\ ret_tt.done) => ret_ig.ids = ret_tt.ids

C7_Witness ==
    /\ ret_ig.done /\ ret_tt.done
    /\ in_file.exists
    /\ in_file.rows = << <<<<"a">>>>, <<<<" ", "a">>>>, <<<<" ">>, <<"a">>>> >>
    /\ ret_ig.ids = << <<"a">> >>

\* ------------------------------------------------------------------------
\* C4: the sink
\* ------------------------------------------------------------------------
EmptyCell == PyStr(<<>>)

IsSortedUnion(header, recs) ==
    /\ Range(header) = AllKeys(recs)
    /\ \A i, j \in 1..Len(header) : i < j => StrLess(header[i], header[j])

\* row is the record d laid out under header, absent fields empty
IsRowOf(row, d, header) ==
    /\ Len(row) = Len(header)
    /\ \A j \in 1..Len(header) :
          \/ \E p \in 1..Len(d) : d[p][1] = header[j] /\ row[j] = CsvCell(d[p][2])
          \/ (\A p \in 1..Len(d) : d[p][1] # header[j]) /\ row[j] = EmptyCell

OneRowPerRecord(file, recs) ==
    /\ Len(file.rows) = Len(recs)
    /\ \A i \in 1..Len(recs) : IsRowOf(file.rows[i], recs[i], file.header)

MaxComments == 3    \* comments and replies the server returns in one run
MaxFetches == 4     \* network requests in one run
MaxDepth == 2       \* nested reply walks followed (platform B)
COMMENTS_PER_PAGE == 50

HeaderRow == << <<"a">> >>
PipelineFiles ==
    {[exists |-> FALSE, rows |-> <<>>],
     [exists |-> TRUE, rows |-> <<HeaderRow>>],
     [exists |-> TRUE,
      rows |-> <<HeaderRow, << <<" ", "a">> >>, <<>>, << <<"a", "a">> >> >>]}

\* the values the server gives the fields the walkers only copy
UserName == PyStr(<<"u">>)
Text == PyStr(<<"t">>)
CreatedAt == PyInt(7)

Resp(kind, nodes, more, cur) ==
    [kind |-> kind, nodes |-> nodes, more |-> more, cur |-> cur]

\* node sequences of a page when the server has room more nodes to give:
\* well-formed nodes, then at most one odd node
NodeSeqs(good, last, room) ==
    SeqUpTo(good, room)
        \cup {Append(p, l) : p \in SeqUpTo(good, room - 1), l \in last}

\* has_next_page and end_cursor of a page: last page, next page, and a server
\* that says has_next_page with an empty end_cursor
PageInfos == {<<FALSE, "">>, <<TRUE, "c1">>, <<TRUE, "">>}

\* Responses to the parent-comment query of platform A, as graphql_request
\* returns them: {} after a RequestException ("http_error"), or the decoded
\* body: "data" null, "shortcode_media" null/absent, the comment container
\* null/absent, "edges" null, or a page. Node kinds: reply count 0 ("c0"),
\* reply count 1 ("c1"), "node" null, "count" null, "edge_threaded_comments"
\* null.
ParentResponsesA(room) ==
    {Resp(k, <<>>, FALSE, "") :
        k \in {"http_error", "data_null", "no_media", "no_container", "edges_null"}}
    \cup {Resp("page", ns, pi[1], pi[2]) :
            ns \in NodeSeqs({"c0", "c1"}, {"null"}, room), pi \in PageInfos}
    \cup {Resp("page", ns, FALSE, "") :
            ns \in NodeSeqs({"c0", "c1"}, {"count_null", "threaded_null"}, room)
                      \ SeqUpTo({"c0", "c1"}, room)}

\* Responses to the replies query of platform A. Node kinds: "ok", "node"
\* null, "owner" null.
ReplyResponsesA(room) ==
    {Resp(k, <<>>, FALSE, "") :
        k \in {"http_error", "data_null", "no_container", "edges_null"}}
    \cup {Resp("page", ns, pi[1], pi[2]) :
            ns \in NodeSeqs({"ok"}, {"null"}, room), pi \in PageInfos}
    \cup {Resp("page", ns, FALSE, "") :
            ns \in NodeSeqs({"ok"}, {"owner_null"}, room) \ SeqUpTo({"ok"}, room)}

\* Responses of platform B's two endpoints: session.get or response.json()
\* raises ("exception"), "comments" is null or absent ("malformed"), or a page
\* of nodes with reply_comment_total 0 ("t0") or 1 ("t1") and a has_more flag.
ResponsesB(room) ==
    {Resp(k, <<>>, FALSE, "") : k \in {"exception", "malformed"}}
    \cup {Resp("page", ns, m, "") : ns \in SeqUpTo({"t0", "t1"}, room),
                                     m \in BOOLEAN}

\* the server numbers the nodes it returns
Room == MaxComments - (next_id - 1)
WithIds(ns, base) ==
    [i \in 1..Len(ns) |-> [kind |-> ns[i], id |-> PyStr(Digits(base + i - 1))]]

Event(w, kind, cur, resp, nodes) ==
    [w |-> w, kind |-> kind, cur |-> cur, resp |-> [resp EXCEPT !.nodes = nodes]]

NewWalk(kind, of, parent) ==
    [kind |-> kind, of |-> of, parent |-> parent, st |-> "open", recs |-> <<>>]

SetWalk(ws, w, st, recs) ==
    [ws EXCEPT ![w] = [@ EXCEPT !.st = st, !.recs = recs]]

\* every walk still open ends in state st
EndOpen(ws, st) ==
    [i \in 1..Len(ws) |->
        IF ws[i].st = "open" THEN [ws[i] EXCEPT !.st = st] ELSE ws[i]]

CommentIds(recs) == [i \in 1..Len(recs) |-> Get(recs[i], "comment_id", PyNone)]

\* ------------------------------------------------------------------------
\* main (both platforms)
\* ------------------------------------------------------------------------
Init ==
    /\ platform \in {"A", "B"}
    /\ input \in PipelineFiles
    /\ pc = "start" /\ ids = <<>> /\ idx = 0 /\ all_comments_data = <<>>
    /\ output = NoFile /\ exit_code = "running" /\ nfetch = 0 /\ next_id = 1
    /\ pw = <<>> /\ rw = <<>> /\ stack = <<>> /\ walks = <<>> /\ log = <<>>
    /\ IdleIds /\ IdleSink

ReadIds(p, f) ==
    IF p = "A" THEN read_post_ids_from_csv(f) ELSE read_ids_from_csv(f)

\* variant: both platforms return
NoIdsExit_Clean(p) == "0"

\* platform A: sys.exit(1); platform B: return
NoIdsExit(p) == IF p = "A" THEN "1" ELSE "0"

Main_Start ==
    /\ pc = "start"
    /\ ids' = ReadIds(platform, input)
    /\ IF ids' = <<>>
       THEN pc' = "done" /\ exit_code' = NoIdsExit(platform)
       ELSE pc' = "loop" /\ UNCHANGED exit_code
    /\ UNCHANGED <<platform, input, idx, all_comments_data, output, nfetch,
                   next_id, pw, rw, stack, walks, log, vars_ids, vars_sink>>

\* for post_id in ids_to_scrape: ... fetch_comments(post_id, headers)
\* for aweme_id in aweme_ids: ... scraper(aweme_id=aweme_id)
Main_NextId ==
    /\ pc = "loop" /\ idx < Len(ids)
    /\ idx' = idx + 1
    /\ walks' = Append(walks, NewWalk("parent", PyStr(ids[idx + 1]), 0))
    /\ IF platform = "A"
       THEN /\ pw' = [w |-> Len(walks) + 1, has_next |-> TRUE, cursor |-> "",
                      all_comments |-> <<>>, edges |-> <<>>,
                      page_info |-> <<FALSE, "">>]
            /\ pc' = "A_while"
       ELSE /\ pw' = [w |-> Len(walks) + 1, page |-> 1, data |-> <<>>]
            /\ pc' = "B_get_comments"
    /\ UNCHANGED <<platform, input, ids, all_comments_data, output, exit_code,
                   nfetch, next_id, rw, stack, log, vars_ids, vars_sink>>

Main_LoopEnd ==
    /\ pc = "loop" /\ idx = Len(ids)
    /\ pc' = "save"
    /\ UNCHANGED <<platform, input, ids, idx, all_comments_data, output,
                   exit_code, nfetch, next_id, pw, rw, stack, walks, log,
                   vars_ids, vars_sink>>

Sink(p, recs) == IF p = "A" THEN SinkIg(recs) ELSE SinkTt(recs)

Main_Save ==
    /\ pc = "save"
    /\ output' = Sink(platform, all_comments_data)
    /\ exit_code' = IF output'.raised THEN "exception" ELSE "0"
    /\ pc' = "done"
    /\ UNCHANGED <<platform, input, ids, idx, all_comments_data, nfetch,
                   next_id, pw, rw, stack, walks, log, vars_ids, vars_sink>>

\* ------------------------------------------------------------------------
\* Platform A: fetch_comments and fetch_replies
\* ------------------------------------------------------------------------
ParentRecordA(shortcode, node) ==
    << <<"post_id", shortcode>>,
       <<"parent_comment_id", node.id>>,
       <<"comment_id", node.id>>,
       <<"username", UserName>>,
       <<"comment_text", Text>>,
       <<"created_at", CreatedAt>>,
       <<"is_reply", PyBool(FALSE)>> >>

ReplyRecordA(shortcode, comment_id, node) ==
    << <<"post_id", shortcode>>,
       <<"parent_comment_id", comment_id>>,
       <<"comment_id", node.id>>,
       <<"username", UserName>>,
       <<"comment_text", Text>>,
       <<"created_at", CreatedAt>>,
       <<"is_reply", PyBool(TRUE)>> >>

\* child_comment_count of a node kind
ChildCount(kind) == IF kind = "c1" THEN 1 ELSE 0

\* variant: the count is not looked at
HasRepliesA_Always(count) == count >= 0

\* if child_comment_count > 0
HasRepliesA(count) == count > 0

\* an exception nothing catches: the process dies with a traceback
Uncaught ==
    /\ pc' = "done" /\ exit_code' = "exception"
    /\ pw' = <<>> /\ rw' = <<>> /\ stack' = <<>>
    /\ walks' = EndOpen(walks, "crashed")

Shortcode == PyStr(ids[idx])

\* one iteration of fetch_comments' while loop up to the for loop over edges
A_Fetch ==
    /\ platform = "A" /\ pc = "A_while" /\ nfetch < MaxFetches
    /\ \E resp \in ParentResponsesA(Room) :
         LET nodes == WithIds(resp.nodes, next_id)
         IN  /\ log' = Append(log, Event(pw.w, "parent", pw.cursor, resp, nodes))
             /\ nfetch' = nfetch + 1
             /\ next_id' = next_id + Len(nodes)
             /\ IF resp.kind = "data_null"
                THEN Uncaught              \* AttributeError at line 129
                ELSE IF resp.kind # "page"
                THEN \* not data / no shortcode_media / not edge_info: break;
                     \* "edges" null: TypeError, caught, break
                     /\ pc' = "A_return"
                     /\ UNCHANGED <<pw, rw, stack, walks, exit_code>>
                ELSE /\ pw' = [pw EXCEPT !.edges = nodes,
                                         !.page_info = <<resp.more, resp.cur>>]
                     /\ pc' = "A_edges"
                     /\ UNCHANGED <<rw, stack, walks, exit_code>>
    /\ UNCHANGED <<platform, input, ids, idx, all_comments_data, output,
                   vars_ids, vars_sink>>

\* one iteration of the for loop over edges
A_Edge ==
    /\ platform = "A" /\ pc = "A_edges" /\ pw.edges # <<>>
    /\ LET node == Head(pw.edges)
           more == [pw EXCEPT !.edges = Tail(pw.edges),
                              !.all_comments =
                                  Append(@, ParentRecordA(Shortcode, node))]
       IN  IF node.kind = "null"
           THEN /\ pw' = [pw EXCEPT !.edges = Tail(pw.edges)]
                /\ UNCHANGED <<pc, rw, stack, walks, exit_code>>
           ELSE IF node.kind = "threaded_null"
           THEN Uncaught                   \* AttributeError at line 157
           ELSE IF node.kind = "count_null"
           THEN \* None > 0: TypeError, caught, break
                /\ pw' = more /\ pc' = "A_return"
                /\ UNCHANGED <<rw, stack, walks, exit_code>>
           ELSE IF HasRepliesA(ChildCount(node.kind))
           THEN /\ pw' = more
                /\ rw' = [w |-> Len(walks) + 1, comment_id |-> node.id,
                          has_next |-> TRUE, cursor |-> "",
                          all_replies |-> <<>>]
                /\ walks' = Append(walks, NewWalk("reply", node.id, pw.w))
                /\ pc' = "A_replies"
                /\ UNCHANGED <<stack, exit_code>>
           ELSE /\ pw' = more
                /\ UNCHANGED <<pc, rw, stack, walks, exit_code>>
    /\ UNCHANGED <<platform, input, ids, idx, all_comments_data, output,
                   nfetch, next_id, log, vars_ids, vars_sink>>

\* after the for loop: page_info, has_next, cursor, sleep
A_PageEnd ==
    /\ platform = "A" /\ pc = "A_edges" /\ pw.edges = <<>>
    /\ pw' = [pw EXCEPT !.has_next = pw.page_info[1],
                        !.cursor = pw.page_info[2]]
    /\ pc' = IF pw.page_info[1] THEN "A_while" ELSE "A_return"
    /\ UNCHANGED <<platform, input, ids, idx, all_comments_data, output,
                   exit_code, nfetch, next_id, rw, stack, walks, log,
                   vars_ids, vars_sink>>

\* return all_comments; all_comments_data.extend(comments)
A_Return ==
    /\ platform = "A" /\ pc = "A_return"
    /\ all_comments_data' = all_comments_data \o pw.all_comments
    /\ walks' = SetWalk(walks, pw.w, "returned", CommentIds(pw.all_comments))
    /\ pw' = <<>>
    /\ pc' = "loop"
    /\ UNCHANGED <<platform, input, ids, idx, output, exit_code, nfetch,
                   next_id, rw, stack, log, vars_ids, vars_sink>>

\* the reply records of the nodes of one page, up to an "owner" that is null
RECURSIVE ReplyRecords(_, _, _)
ReplyRecords(shortcode, comment_id, nodes) ==
    IF nodes = <<>> \/ Head(nodes).kind = "owner_null" THEN <<>>
    ELSE (IF Head(nodes).kind = "null" THEN <<>>
          ELSE <<ReplyRecordA(shortcode, comment_id, Head(nodes))>>)
         \o ReplyRecords(shortcode, comment_id, Tail(nodes))

\* one iteration of fetch_replies' while loop; when the loop ends,
\* all_comments.extend(replies) in fetch_comments
A_FetchReply ==
    /\ platform = "A" /\ pc = "A_replies" /\ nfetch < MaxFetches
    /\ \E resp \in ReplyResponsesA(Room) :
         LET nodes == WithIds(resp.nodes, next_id)
             got == rw.all_replies \o ReplyRecords(Shortcode, rw.comment_id, nodes)
             back == [pw EXCEPT !.all_comments = @ \o got]
         IN  /\ log' = Append(log, Event(rw.w, "reply", rw.cursor, resp, nodes))
             /\ nfetch' = nfetch + 1
             /\ next_id' = next_id + Len(nodes)
             /\ IF resp.kind = "data_null"
                   \/ \E i \in 1..Len(nodes) : nodes[i].kind = "owner_null"
                THEN Uncaught              \* AttributeError at line 82 / 95
                ELSE IF resp.kind = "edges_null"
                THEN \* TypeError leaves fetch_replies; fetch_comments
                     \* catches it at line 167 and breaks
                     /\ pc' = "A_return" /\ rw' = <<>>
                     /\ walks' = SetWalk(walks, rw.w, "raised", <<>>)
                     /\ UNCHANGED <<pw, stack, exit_code>>
                ELSE IF resp.kind = "page" /\ resp.more
                THEN /\ rw' = [rw EXCEPT !.all_replies = got,
                                         !.has_next = TRUE,
                                         !.cursor = resp.cur]
                     /\ UNCHANGED <<pc, pw, stack, walks, exit_code>>
                ELSE \* {} or no container: break; last page: loop ends
                     /\ pw' = back /\ rw' = <<>>
                     /\ walks' = SetWalk(walks, rw.w, "returned", CommentIds(got))
                     /\ pc' = "A_edges"
                     /\ UNCHANGED <<stack, exit_code>>
    /\ UNCHANGED <<platform, input, ids, idx, all_comments_data, output,
                   vars_ids, vars_sink>>

\* ------------------------------------------------------------------------
\* Platform B: TiktokComment
\* ------------------------------------------------------------------------
\* reply_comment_total of a node kind
ReplyTotal(kind) == IF kind = "t1" THEN 1 ELSE 0

\* Comment(**parsed_data, replies=...)
Comment(node, replies) ==
    [comment_id |-> node.id, total_reply |-> ReplyTotal(node.kind),
     replies |-> replies]

\* if parsed_data.get('total_reply')
HasRepliesB(total) == total # 0

\* dataclasses.asdict, recursive over replies
RECURSIVE asdict(_)
asdict(c) ==
    << <<"comment_id", c.comment_id>>,
       <<"username", UserName>>,
       <<"nickname", UserName>>,
       <<"comment", Text>>,
       <<"create_time", CreatedAt>>,
       <<"avatar", Text>>,
       <<"total_reply", PyInt(c.total_reply)>>,
       <<"replies", PyList([i \in 1..Len(c.replies) |-> asdict(c.replies[i])])>> >>

\* comment['aweme_id'] = aweme_id
RowB(c, aweme_id) == Append(asdict(c), <<"aweme_id", aweme_id>>)

Offset(page) == (page - 1) * COMMENTS_PER_PAGE

Top == stack[Len(stack)]
Below == SubSeq(stack, 1, Len(stack) - 1)
SetTop(f) == Append(Below, f)
WalkDepth == Cardinality({i \in 1..Len(stack) : stack[i].kind = "walk"})

\* an exception that leaves the scraper: main's except logs it and continues
RaisedToMain ==
    /\ pc' = "loop"
    /\ pw' = <<>> /\ stack' = <<>>
    /\ walks' = EndOpen(walks, "raised")

\* get_comments up to the list comprehension over the comments
B_GetComments ==
    /\ platform = "B" /\ pc = "B_get_comments" /\ nfetch < MaxFetches
    /\ \E resp \in ResponsesB(Room) :
         LET nodes == WithIds(resp.nodes, next_id)
         IN  /\ log' = Append(log, Event(pw.w, "parent", Offset(pw.page), resp, nodes))
             /\ nfetch' = nfetch + 1
             /\ next_id' = next_id + Len(nodes)
             /\ IF resp.kind # "page"
                THEN RaisedToMain
                ELSE /\ stack' = <<[kind |-> "top", w |-> pw.w, cid |-> PyNone,
                                    page |-> pw.page, collected |-> <<>>,
                                    todo |-> nodes, done |-> <<>>,
                                    has_more |-> resp.more]>>
                     /\ pc' = "B_parse"
                     /\ UNCHANGED <<pw, walks>>
    /\ UNCHANGED <<platform, input, ids, idx, all_comments_data, output,
                   exit_code, rw, vars_ids, vars_sink>>

\* __parse_comment of the next comment of the response being parsed
B_Parse ==
    /\ platform = "B" /\ pc = "B_parse" /\ Top.todo # <<>>
    /\ LET node == Head(Top.todo)
       IN  IF HasRepliesB(ReplyTotal(node.kind))
           THEN \* list(self.get_all_replies(comment_id))
                /\ WalkDepth < MaxDepth
                /\ stack' = Append(stack,
                               [kind |-> "walk", w |-> Len(walks) + 1,
                                cid |-> node.id, page |-> 1,
                                collected |-> <<>>, todo |-> <<>>,
                                done |-> <<>>, has_more |-> FALSE])
                /\ walks' = Append(walks, NewWalk("reply", node.id, Top.w))
                /\ pc' = "B_get_replies"
           ELSE /\ stack' = SetTop([Top EXCEPT !.todo = Tail(@),
                                               !.done = Append(@, Comment(node, <<>>))])
                /\ UNCHANGED <<pc, walks>>
    /\ UNCHANGED <<platform, input, ids, idx, all_comments_data, output,
                   exit_code, nfetch, next_id, pw, rw, log, vars_ids, vars_sink>>

\* get_replies up to the list comprehension; get_all_replies' "if not
\* replies: break" when the list is empty
B_GetReplies ==
    /\ platform = "B" /\ pc = "B_get_replies" /\ nfetch < MaxFetches
    /\ \E resp \in ResponsesB(Room) :
         LET nodes == WithIds(resp.nodes, next_id)
             caller == stack[Len(stack) - 1]
         IN  /\ log' = Append(log, Event(Top.w, "reply", Offset(Top.page), resp, nodes))
             /\ nfetch' = nfetch + 1
             /\ next_id' = next_id + Len(nodes)
             /\ IF resp.kind # "page"
                THEN RaisedToMain
                ELSE IF nodes = <<>>
                THEN \* the walk is over: the caller's Comment gets the replies
                     /\ stack' = Append(SubSeq(stack, 1, Len(stack) - 2),
                                        [caller EXCEPT
                                           !.todo = Tail(@),
                                           !.done = Append(@, Comment(Head(caller.todo),
                                                                      Top.collected))])
                     /\ walks' = SetWalk(walks, Top.w, "returned",
                                         [i \in 1..Len(Top.collected) |->
                                             Top.collected[i].comment_id])
                     /\ pc' = "B_parse"
                     /\ UNCHANGED pw
                ELSE /\ stack' = SetTop([Top EXCEPT !.todo = nodes, !.done = <<>>,
                                                    !.has_more = resp.more])
                     /\ pc' = "B_parse"
                     /\ UNCHANGED <<pw, walks>>
    /\ UNCHANGED <<platform, input, ids, idx, all_comments_data, output,
                   exit_code, rw, vars_ids, vars_sink>>

\* the list comprehension of get_replies is complete: get_all_replies yields
\* the replies and asks for the next page
B_RepliesPageEnd ==
    /\ platform = "B" /\ pc = "B_parse" /\ Top.todo = <<>> /\ Top.kind = "walk"
    /\ stack' = SetTop([Top EXCEPT !.collected = @ \o Top.done, !.done = <<>>,
                                   !.page = @ + 1])
    /\ pc' = "B_get_replies"
    /\ UNCHANGED <<platform, input, ids, idx, all_comments_data, output,
                   exit_code, nfetch, next_id, pw, rw, walks, log,
                   vars_ids, vars_sink>>

\* what get_all_comments does with the Comments of a page: the first page
\* becomes data; a later page is added unless its has_more is false
KeepPage(page, has_more) == page = 1 \/ has_more

\* whether get_all_comments asks for another page
AnotherPage(page, has_more) == page = 1 \/ has_more

\* get_comments returns its Comments to get_all_comments
B_CommentsPageEnd ==
    /\ platform = "B" /\ pc = "B_parse" /\ Top.todo = <<>> /\ Top.kind = "top"
    /\ pw' = [pw EXCEPT !.data = IF KeepPage(pw.page, Top.has_more)
                                  THEN @ \o Top.done ELSE @,
                        !.page = @ + 1]
    /\ pc' = IF AnotherPage(pw.page, Top.has_more)
             THEN "B_get_comments" ELSE "B_return"
    /\ stack' = <<>>
    /\ UNCHANGED <<platform, input, ids, idx, all_comments_data, output,
                   exit_code, nfetch, next_id, rw, walks, log,
                   vars_ids, vars_sink>>

\* return data; main adds aweme_id to every comment and appends it
B_Return ==
    /\ platform = "B" /\ pc = "B_return"
    /\ all_comments_data' = all_comments_data \o
           [i \in 1..Len(pw.data) |-> RowB(pw.data[i], PyStr(ids[idx]))]
    /\ walks' = SetWalk(walks, pw.w, "returned",
                        [i \in 1..Len(pw.data) |-> pw.data[i].comment_id])
    /\ pw' = <<>>
    /\ pc' = "loop"
    /\ UNCHANGED <<platform, input, ids, idx, output, exit_code, nfetch,
                   next_id, rw, stack, log, vars_ids, vars_sink>>

\* ------------------------------------------------------------------------
\* The program
\* ------------------------------------------------------------------------
Next ==
    \/ Main_Start \/ Main_NextId \/ Main_LoopEnd \/ Main_Save
    \/ A_Fetch \/ A_Edge \/ A_PageEnd \/ A_Return \/ A_FetchReply
    \/ B_GetComments \/ B_Parse \/ B_GetReplies \/ B_RepliesPageEnd
    \/ B_CommentsPageEnd \/ B_Return

Spec == Init /\ [][Next]_vars

\* ------------------------------------------------------------------------
\* Reading the histories
\* ------------------------------------------------------------------------
Field(r, k) == Get(r, k, PyNone)
IsReply(r) == Get(r, "is_reply", PyBool(FALSE)) = PyBool(TRUE)

\* the rows flattened so far: main's list, then the list of the walk going on
WalkerRows ==
    IF platform = "A" /\ pc \in {"A_while", "A_edges", "A_replies", "A_return"}
    THEN pw.all_comments ELSE <<>>
AllRows == all_comments_data \o WalkerRows

ServedNodes == UNION {Range(log[i].resp.nodes) : i \in 1..Len(log)}
KindOf(id) == (CHOOSE n \in ServedNodes : n.id = id).kind
ReplyWalksOf(id) ==
    {w \in 1..Len(walks) : walks[w].kind = "reply" /\ walks[w].of = id}

\* requests of walk w, in the order issued
Requests(w) == SelectSeq(log, LAMBDA e : e.w = w)

RECURSIVE NodeIdsOf(_)
NodeIdsOf(evs) ==
    IF evs = <<>> THEN <<>>
    ELSE [i \in 1..Len(Head(evs).resp.nodes) |-> Head(evs).resp.nodes[i].id]
            \o NodeIdsOf(Tail(evs))

\* the parent walk a walk belongs to
RECURSIVE RootOf(_)
RootOf(w) == IF walks[w].parent = 0 THEN w ELSE RootOf(walks[w].parent)

Transport == {"http_error", "exception"}
OddNodes == {"null", "count_null", "threaded_null", "owner_null"}
Malformed(resp) ==
    \/ resp.kind \in {"data_null", "no_media", "no_container", "edges_null", "malformed"}
    \/ \E i \in 1..Len(resp.nodes) : resp.nodes[i].kind \in OddNodes
WellFormed(resp) == resp.kind = "page" /\ ~Malformed(resp)

\* ------------------------------------------------------------------------
\* C1
\* ------------------------------------------------------------------------
\* the requests of a walk got well-formed pages of comments without replies,
\* every page but the last saying has-more, the last saying no more
PagedResponse(evs) ==
    /\ evs # <<>>
    /\ \A i \in 1..Len(evs) :
          /\ WellFormed(evs[i].resp)
          /\ \A k \in 1..Len(evs[i].resp.nodes) :
                evs[i].resp.nodes[k].kind \in {"c0", "t0"}
          /\ evs[i].resp.more = (i < Len(evs))

\* C1 as stated: a parent walk over a paged response (every page but the last
\* has-more, the last not) returns one parent record for every node of every
\* page in page order, the nodes of the last page included.
C1_Original ==
    \A w \in 1..Len(walks) :
        (walks[w].kind = "parent" /\ walks[w].st = "returned"
            /\ PagedResponse(Requests(w)))
        => walks[w].recs = NodeIdsOf(Requests(w))

\* ------------------------------------------------------------------------
\* C2
\* ------------------------------------------------------------------------
\* the rows right after row j are the records recs, tagged as replies to the
\* comment of row j, and the row after them is a parent's
RepliesFollow(rows, j, recs) ==
    /\ j + Len(recs) <= Len(rows)
    /\ \A k \in 1..Len(recs) :
          /\ IsReply(rows[j + k])
          /\ Field(rows[j + k], "comment_id") = recs[k]
          /\ Field(rows[j + k], "parent_comment_id") = Field(rows[j], "comment_id")
          /\ Field(rows[j + k], "post_id") = Field(rows[j], "post_id")
    /\ (j + Len(recs) < Len(rows)) => ~IsReply(rows[j + Len(recs) + 1])

RowReplyIds(r) ==
    LET l == Get(r, "replies", PyList(<<>>))[2]
    IN  [i \in 1..Len(l) |-> Field(l[i], "comment_id")]

C2_FlatA ==
    /\ \A j \in 1..Len(AllRows) :
          IF IsReply(AllRows[j])
          THEN \* a reply row follows its parent's row or a sibling's
               /\ j > 1
               /\ Field(AllRows[j], "post_id") = Field(AllRows[j - 1], "post_id")
               /\ Field(AllRows[j], "parent_comment_id") =
                      IF IsReply(AllRows[j - 1])
                      THEN Field(AllRows[j - 1], "parent_comment_id")
                      ELSE Field(AllRows[j - 1], "comment_id")
          ELSE \* one walk for a nonzero reply count, none for zero
               Cardinality(ReplyWalksOf(Field(AllRows[j], "comment_id"))) =
                   IF KindOf(Field(AllRows[j], "comment_id")) = "c1" THEN 1 ELSE 0
    /\ \A w \in 1..Len(walks) : \A j \in 1..Len(AllRows) :
          (walks[w].kind = "reply" /\ walks[w].st = "returned"
              /\ ~IsReply(AllRows[j])
              /\ Field(AllRows[j], "comment_id") = walks[w].of)
          => RepliesFollow(AllRows, j, walks[w].recs)

C2_NestedB ==
    /\ \A w \in 1..Len(walks) :
          walks[w].kind = "reply" =>
              /\ KindOf(walks[w].of) = "t1"
              /\ ReplyWalksOf(walks[w].of) = {w}
    /\ \A j \in 1..Len(all_comments_data) :
          LET r == all_comments_data[j]
              id == Field(r, "comment_id")
          IN  /\ "is_reply" \notin Keys(r)
              /\ \E i \in 1..Len(log) :
                    /\ log[i].kind = "parent"
                    /\ \E k \in 1..Len(log[i].resp.nodes) :
                          log[i].resp.nodes[k].id = id
              /\ IF KindOf(id) = "t1"
                 THEN \E w \in ReplyWalksOf(id) :
                         /\ walks[w].st = "returned"
                         /\ RowReplyIds(r) = walks[w].recs
                 ELSE ReplyWalksOf(id) = {} /\ RowReplyIds(r) = <<>>

ParentRequestsTo(w, i) ==
    {k \in 1..i : log[k].w = w /\ log[k].kind = "parent"}

\* ids of the comments on the pages walk w had gone through before request
\* number i of the run: the pages before the one it was on (a null node is
\* no comment)
ParentNodesBefore(w, i) ==
    LET ks == ParentRequestsTo(w, i)
        done == {k \in ks : \E y \in ks : k < y}
    IN  {n.id : n \in {x \in UNION {Range(log[k].resp.nodes) : k \in done} :
                        x.kind # "null"}}

RowIds == {Field(all_comments_data[j], "comment_id") : j \in 1..Len(all_comments_data)}

\* C3 as stated: after a transport failure no exception leaves the walker,
\* and the comments the walk of that id had collected before the failure are
\* returned to main.
C3_Original ==
    \A i \in 1..Len(log) :
        log[i].resp.kind \in Transport =>
            LET root == RootOf(log[i].w)
            IN  /\ walks[log[i].w].st # "raised"
                /\ walks[root].st # "raised"
                /\ walks[root].st = "returned" =>
                       ParentNodesBefore(root, i) \subseteq RowIds

C6_Original ==
    \A i \in 1..Len(log) :
        Malformed(log[i].resp) =>
            /\ exit_code # "exception"
            /\ walks[RootOf(log[i].w)].st \in {"open", "returned"}

\* ------------------------------------------------------------------------
\* C8
\* ------------------------------------------------------------------------
\* C8 as stated: within one walk no two requests carry the same cursor/offset.
C8_Original ==
    \A i, j \in 1..Len(log) :
        (i < j /\ log[i].w = log[j].w) => log[i].cur # log[j].cur

\* ------------------------------------------------------------------------
\* C9
\* ------------------------------------------------------------------------
\* C9 as stated: a reply walk is never started from within a reply walk.
C9_Original ==
    \A w \in 1..Len(walks) :
        walks[w].kind = "reply" => walks[walks[w].parent].kind = "parent"

\* ------------------------------------------------------------------------
\* C10
\* ------------------------------------------------------------------------
\* C10 as stated: a reply walk issues no request after a page that says no
\* more, and a failed request ends it with the replies collected so far.
C10_Original ==
    \A i \in 1..Len(log) :
        log[i].kind = "reply" =>
            /\ (WellFormed(log[i].resp) /\ ~log[i].resp.more) =>
                  \A j \in (i + 1)..Len(log) : log[j].w # log[i].w
            /\ log[i].resp.kind \in Transport => walks[log[i].w].st # "raised"

====
